---- MODULE Spec2Model ----
(***************************************************************************)
(* Lifecycle handlers of the GNS3 Terraform provider: the Create, Read,    *)
(* Update and Delete callbacks of the five resource kinds (cloud, switch,  *)
(* template, docker, qemu), run against a controller whose answers are     *)
(* chosen nondeterministically.                                            *)
(*                                                                         *)
(* One resource instance (a schema.ResourceData) is modelled: its ID, its  *)
(* attribute bag, and a record of the last handler call (the requests it   *)
(* sent, the answers it got, the error it returned).                       *)
(*                                                                         *)
(* Strings that are taken apart or put into URLs (ID, project_id,          *)
(* template_id, environment text) are sequences of one-character strings;  *)
(* the other strings are atomic.  JSON values carry a type tag so that a   *)
(* Go type assertion (v.(string), v.(float64)) can fail.                   *)
(***************************************************************************)
EXTENDS Integers, Sequences, FiniteSets, TLC

\* Largest non-zero canvas coordinate a configuration or a server node uses.
MaxCoord == 1

\* Longest raw key handed to an importer, in characters.
MaxKeyLen == 3

Kinds == {"cloud", "switch", "template", "docker", "qemu"}

(***************************************************************************)
(* JSON values and objects                                                 *)
(***************************************************************************)
JStr(s) == [t |-> "str", v |-> s]
JNum(n) == [t |-> "num", v |-> n]
JObj(m) == [t |-> "obj", v |-> m]
JList(l) == [t |-> "list", v |-> l]

EmptyObj == [k \in {} |-> JNum(0)]

Put(m, k, v) == [f \in (DOMAIN m) \cup {k} |-> IF f = k THEN v ELSE m[f]]

\* v, ok := m[k].(string)
IsStr(m, k) == k \in DOMAIN m /\ m[k].t = "str"
\* v, ok := m[k].(float64)
IsNum(m, k) == k \in DOMAIN m /\ m[k].t = "num"
\* v, ok := m[k].(map[string]interface{})
IsObj(m, k) == k \in DOMAIN m /\ m[k].t = "obj"

(***************************************************************************)
(* HTTP exchange                                                           *)
(***************************************************************************)
StatusOK == 200
StatusCreated == 201
StatusNoContent == 204
StatusNotFound == 404

\* The statuses the controller answers with: the four the handlers name, and
\* two they do not (Conflict, Internal Server Error).
Statuses == {StatusOK, StatusCreated, StatusNoContent, StatusNotFound, 409, 500}

\* fmt.Sprintf("%s/v2/projects/%s/nodes/%s", host, projectID, nodeID) and its
\* variants: the collection, the item in it, and a trailing action.
Path(project, coll, item, action) ==
    [project |-> project, coll |-> coll, item |-> item, action |-> action]

\* A request with a JSON body, and one without (http.NewRequest(..., nil)).
Req(method, path, body) ==
    [method |-> method, path |-> path, hasBody |-> TRUE, body |-> body]
ReqNoBody(method, path) ==
    [method |-> method, path |-> path, hasBody |-> FALSE, body |-> EmptyObj]

\* A response body: JSON that decodes to an object, or bytes that do not.
JsonBody(m) == [decodable |-> TRUE, obj |-> m]
TextBody == [decodable |-> FALSE, obj |-> EmptyObj]

\* The answer to one request: a transport error (err != nil), or a status
\* and a body.
TransportError == [ok |-> FALSE, status |-> 0, body |-> TextBody]
Resp(s, b) == [ok |-> TRUE, status |-> s, body |-> b]

(***************************************************************************)
(* The value a handler returns: nil, or an error naming the step that      *)
(* failed, the status code it prints (0: none) and whether it prints the   *)
(* response body.                                                          *)
(***************************************************************************)
NoErr == [failed |-> FALSE, at |-> "", code |-> 0, body |-> FALSE]
Error(at, code, body) == [failed |-> TRUE, at |-> at, code |-> code, body |-> body]

\* What a handler leaves behind: the ID and attributes of d, the requests it
\* sent with the answers it read, and its return value.
Outcome(i, a, rq, rs, e) == [id |-> i, attrs |-> a, reqs |-> rq, resps |-> rs, err |-> e]

(***************************************************************************)
(* Attribute schema: the declared attributes of each kind with the value   *)
(* an instance has when the user sets nothing but the required fields      *)
(* (schema defaults applied, zero values elsewhere), and the computed      *)
(* attributes.                                                             *)
(***************************************************************************)
resourceGns3Cloud ==
    [project_id |-> <<"p">>, name |-> "a", compute_id |-> "local", x |-> 0, y |-> 0,
     cloud_id |-> <<>>, symbol |-> ":/symbols/classic/cloud.svg"]

resourceGns3Switch ==
    [project_id |-> <<"p">>, name |-> "a", compute_id |-> "local", x |-> 0, y |-> 0,
     switch_id |-> <<>>, symbol |-> ":/symbols/classic/ethernet_switch.svg"]

resourceGns3Template ==
    [project_id |-> <<"p">>, template_id |-> <<"t">>, name |-> "a",
     compute_id |-> "local", start |-> FALSE, x |-> 0, y |-> 0]

\* environment (TypeMap) is a set of <<key, value>> pairs with distinct keys.
resourceGns3Docker ==
    [project_id |-> <<"p">>, name |-> "a", compute_id |-> "local", image |-> "img1",
     environment |-> {}, x |-> 0, y |-> 0, extra_volumes |-> <<>>, docker_id |-> <<>>,
     start_command |-> "", start |-> TRUE]

resourceGns3Qemu ==
    [project_id |-> <<"p">>, name |-> "a", adapter_type |-> "e1000", adapters |-> 1,
     bios_image |-> "", cdrom_image |-> "", console |-> 0, console_type |-> "telnet",
     cpus |-> 1, ram |-> 256, mac_address |-> "", options |-> "", start_vm |-> FALSE,
     platform |-> "", hda_disk_image |-> "", x |-> 0, y |-> 0,
     symbol |-> ":/symbols/classic/computer.svg"]

Schema(k) ==
    CASE k = "cloud" -> resourceGns3Cloud
      [] k = "switch" -> resourceGns3Switch
      [] k = "template" -> resourceGns3Template
      [] k = "docker" -> resourceGns3Docker
      [] k = "qemu" -> resourceGns3Qemu

\* Computed: true
Computed(k) ==
    CASE k = "cloud" -> {"cloud_id"}
      [] k = "switch" -> {"switch_id"}
      [] k = "docker" -> {"docker_id"}
      [] OTHER -> {}

\* ForceNew: true
ForceNew(k) ==
    CASE k = "template" -> {"template_id"}
      [] k = "docker" -> {"image"}
      [] OTHER -> {}

Declared(k) == (DOMAIN Schema(k)) \ Computed(k)

\* The other values a user may declare for an attribute.
OtherValues(a) ==
    CASE a = "project_id" -> {<<"q">>}
      [] a = "template_id" -> {<<"u">>}
      [] a = "name" -> {"b"}
      [] a = "compute_id" -> {"vm"}
      [] a \in {"x", "y"} -> 1..MaxCoord
      [] a = "symbol" -> {":/symbols/custom.svg"}
      [] a \in {"start", "start_vm"} -> {TRUE, FALSE}
      [] a = "image" -> {"img2"}
      [] a = "environment" -> {{<<<<"A">>, <<"1">>>>},
                               {<<<<"A">>, <<"1">>>>, <<<<"B">>, <<"2">>>>}}
      [] a = "extra_volumes" -> {<<"h:c">>}
      [] a = "start_command" -> {"sh"}
      [] a = "adapter_type" -> {"virtio"}
      [] a = "adapters" -> {2}
      [] a = "bios_image" -> {"bios.bin"}
      [] a = "cdrom_image" -> {"cd.iso"}
      [] a = "console" -> {5000}
      [] a = "console_type" -> {"vnc"}
      [] a = "cpus" -> {2}
      [] a = "ram" -> {512}
      [] a = "mac_address" -> {"0c:00"}
      [] a = "options" -> {"-smbios"}
      [] a = "platform" -> {"x86_64"}
      [] a = "hda_disk_image" -> {"hda.qcow2"}

\* The fully specified configuration: every declared attribute given a value
\* other than its default.
FullConfig(k) ==
    [a \in DOMAIN Schema(k) |->
        CASE a \in Computed(k) -> Schema(k)[a]
          [] a \in {"start", "start_vm"} -> ~Schema(k)[a]
          [] a \in {"x", "y"} -> MaxCoord
          [] a = "environment" -> {<<<<"A">>, <<"1">>>>, <<<<"B">>, <<"2">>>>}
          [] OTHER -> CHOOSE v \in OtherValues(a) : TRUE]

\* The configurations a user declares: the defaults, the defaults with one
\* attribute set otherwise, and the fully specified one.
Configs(k) ==
    {Schema(k), FullConfig(k)}
    \cup UNION {{[Schema(k) EXCEPT ![a] = v] : v \in OtherValues(a)} : a \in Declared(k)}

\* d.GetOk(key): ok is false when the value is the zero value of its type.
GetOk(a, key) ==
    CASE key \in {"environment"} -> a[key] # {}
      [] key \in {"extra_volumes"} -> a[key] # <<>>
      [] key \in {"console"} -> a[key] # 0
      [] OTHER -> a[key] # ""

(***************************************************************************)
(* Read                                                                    *)
(***************************************************************************)
NodePath(a, i) == Path(a.project_id, "nodes", i, "")

\* Variant: not-found is handled like any other rejected status.
resourceGns3CloudRead_NotFoundIsError(i, a, r) ==
    LET rq == <<ReqNoBody("GET", NodePath(a, i))>> IN
    IF ~r.ok THEN Outcome(i, a, rq, <<r>>, Error("read", 0, FALSE))
    ELSE IF r.status # StatusOK
         THEN Outcome(i, a, rq, <<r>>, Error("read", r.status, TRUE))
    ELSE Outcome(i, a, rq, <<r>>, NoErr)

resourceGns3CloudRead(i, a, r) ==
    LET rq == <<ReqNoBody("GET", NodePath(a, i))>> IN
    IF ~r.ok THEN Outcome(i, a, rq, <<r>>, Error("read", 0, FALSE))
    ELSE IF r.status = StatusNotFound THEN Outcome(<<>>, a, rq, <<r>>, NoErr)
    ELSE IF r.status # StatusOK
         THEN Outcome(i, a, rq, <<r>>, Error("read", r.status, TRUE))
    ELSE Outcome(i, a, rq, <<r>>, NoErr)

\* Variant: every answer other than 200 is taken for the loss of the node.
resourceGns3SwitchRead_ClearsOnAnyFailure(i, a, r) ==
    LET rq == <<ReqNoBody("GET", NodePath(a, i))>> IN
    IF ~r.ok THEN Outcome(i, a, rq, <<r>>, Error("read", 0, FALSE))
    ELSE IF r.status = StatusNotFound THEN Outcome(<<>>, a, rq, <<r>>, NoErr)
    ELSE IF r.status # StatusOK
         THEN Outcome(<<>>, a, rq, <<r>>, Error("read", r.status, TRUE))
    ELSE Outcome(i, a, rq, <<r>>, NoErr)

resourceGns3SwitchRead(i, a, r) ==
    LET rq == <<ReqNoBody("GET", NodePath(a, i))>> IN
    IF ~r.ok THEN Outcome(i, a, rq, <<r>>, Error("read", 0, FALSE))
    ELSE IF r.status = StatusNotFound THEN Outcome(<<>>, a, rq, <<r>>, NoErr)
    ELSE IF r.status # StatusOK
         THEN Outcome(i, a, rq, <<r>>, Error("read", r.status, TRUE))
    ELSE Outcome(i, a, rq, <<r>>, NoErr)

resourceGns3DockerRead(i, a, r) ==
    LET rq == <<ReqNoBody("GET", NodePath(a, i))>> IN
    IF ~r.ok THEN Outcome(i, a, rq, <<r>>, Error("read", 0, FALSE))
    ELSE IF r.status = StatusNotFound THEN Outcome(<<>>, a, rq, <<r>>, NoErr)
    ELSE IF r.status # StatusOK
         THEN Outcome(i, a, rq, <<r>>, Error("read", r.status, FALSE))
    ELSE Outcome(i, a, rq, <<r>>, NoErr)

\* d.Set("name", node["name"]); d.Set("x", int(xVar)) and d.Set("y", int(yVar))
\* when the field is a number.  A missing name is nil, which d.Set stores as
\* the empty string.
SetNameXY(a, node) ==
    LET a1 == [a EXCEPT !.name = IF IsStr(node, "name") THEN node.name.v ELSE ""]
        a2 == IF IsNum(node, "x") THEN [a1 EXCEPT !.x = node.x.v] ELSE a1
    IN  IF IsNum(node, "y") THEN [a2 EXCEPT !.y = node.y.v] ELSE a2

resourceGns3TemplateRead(i, a, r) ==
    LET rq == <<ReqNoBody("GET", NodePath(a, i))>> IN
    IF ~r.ok THEN Outcome(i, a, rq, <<r>>, Error("read", 0, FALSE))
    ELSE IF r.status = StatusNotFound THEN Outcome(<<>>, a, rq, <<r>>, NoErr)
    ELSE IF r.status # StatusOK
         THEN Outcome(i, a, rq, <<r>>, Error("read", r.status, TRUE))
    ELSE IF ~r.body.decodable
         THEN Outcome(i, a, rq, <<r>>, Error("read-decode", 0, FALSE))
    ELSE Outcome(i, SetNameXY(a, r.body.obj), rq, <<r>>, NoErr)

\* The five property blocks of the qemu Read, in their order.
SetQemuProperties(a, node) ==
    IF ~IsObj(node, "properties") THEN a
    ELSE LET props == node.properties.v
             a1 == IF IsStr(props, "adapter_type") /\ props.adapter_type.v # ""
                   THEN [a EXCEPT !.adapter_type = props.adapter_type.v] ELSE a
             a2 == IF IsNum(props, "adapters")
                   THEN [a1 EXCEPT !.adapters = props.adapters.v] ELSE a1
             a3 == IF IsStr(props, "bios_image")
                   THEN [a2 EXCEPT !.bios_image = props.bios_image.v] ELSE a2
             a4 == IF IsStr(props, "cdrom_image")
                   THEN [a3 EXCEPT !.cdrom_image = props.cdrom_image.v] ELSE a3
         IN  IF IsNum(props, "cpus") /\ props.cpus.v # 0
             THEN [a4 EXCEPT !.cpus = props.cpus.v] ELSE a4

resourceGns3QemuRead(i, a, r) ==
    LET rq == <<ReqNoBody("GET", NodePath(a, i))>> IN
    IF ~r.ok THEN Outcome(i, a, rq, <<r>>, Error("read", 0, FALSE))
    ELSE IF r.status = StatusNotFound THEN Outcome(<<>>, a, rq, <<r>>, NoErr)
    ELSE IF r.status # StatusOK
         THEN Outcome(i, a, rq, <<r>>, Error("read", r.status, TRUE))
    ELSE IF ~r.body.decodable
         THEN Outcome(i, a, rq, <<r>>, Error("read-decode", 0, FALSE))
    ELSE Outcome(i, SetQemuProperties(SetNameXY(a, r.body.obj), r.body.obj),
                 rq, <<r>>, NoErr)

(***************************************************************************)
(* Delete                                                                  *)
(***************************************************************************)
\* Variant: a DELETE that got no answer is sent once more.
resourceGns3CloudDelete_Retries(i, a, r) ==
    LET rq == <<ReqNoBody("DELETE", NodePath(a, i))>> IN
    IF ~r.ok THEN Outcome(i, a, rq \o rq, <<r, r>>, Error("delete", 0, FALSE))
    ELSE IF r.status # StatusNoContent
         THEN Outcome(i, a, rq, <<r>>, Error("delete", r.status, FALSE))
    ELSE Outcome(<<>>, a, rq, <<r>>, NoErr)

resourceGns3CloudDelete(i, a, r) ==
    LET rq == <<ReqNoBody("DELETE", NodePath(a, i))>> IN
    IF ~r.ok THEN Outcome(i, a, rq, <<r>>, Error("delete", 0, FALSE))
    ELSE IF r.status # StatusNoContent
         THEN Outcome(i, a, rq, <<r>>, Error("delete", r.status, FALSE))
    ELSE Outcome(<<>>, a, rq, <<r>>, NoErr)

\* Variant: the ID is cleared as soon as the controller has answered, before
\* the status is looked at.
resourceGns3SwitchDelete_ClearsFirst(i, a, r) ==
    LET rq == <<ReqNoBody("DELETE", NodePath(a, i))>> IN
    IF ~r.ok THEN Outcome(i, a, rq, <<r>>, Error("delete", 0, FALSE))
    ELSE IF r.status # StatusNoContent
         THEN Outcome(<<>>, a, rq, <<r>>, Error("delete", r.status, FALSE))
    ELSE Outcome(<<>>, a, rq, <<r>>, NoErr)

resourceGns3SwitchDelete(i, a, r) ==
    LET rq == <<ReqNoBody("DELETE", NodePath(a, i))>> IN
    IF ~r.ok THEN Outcome(i, a, rq, <<r>>, Error("delete", 0, FALSE))
    ELSE IF r.status # StatusNoContent
         THEN Outcome(i, a, rq, <<r>>, Error("delete", r.status, FALSE))
    ELSE Outcome(<<>>, a, rq, <<r>>, NoErr)

resourceGns3TemplateDelete(i, a, r) ==
    LET rq == <<ReqNoBody("DELETE", NodePath(a, i))>> IN
    IF ~r.ok THEN Outcome(i, a, rq, <<r>>, Error("delete", 0, FALSE))
    ELSE IF r.status = StatusNotFound THEN Outcome(<<>>, a, rq, <<r>>, NoErr)
    ELSE IF r.status # StatusNoContent
         THEN Outcome(i, a, rq, <<r>>, Error("delete", r.status, TRUE))
    ELSE Outcome(<<>>, a, rq, <<r>>, NoErr)

\* The status of the answer is never looked at.
resourceGns3DockerDelete(i, a, r) ==
    LET rq == <<ReqNoBody("DELETE", NodePath(a, i))>> IN
    IF ~r.ok THEN Outcome(i, a, rq, <<r>>, Error("delete", 0, FALSE))
    ELSE Outcome(<<>>, a, rq, <<r>>, NoErr)

resourceGns3QemuDelete(i, a, r) ==
    LET rq == <<ReqNoBody("DELETE", NodePath(a, i))>> IN
    IF ~r.ok THEN Outcome(i, a, rq, <<r>>, Error("delete", 0, FALSE))
    ELSE IF r.status # StatusNoContent /\ r.status # StatusOK
         THEN Outcome(i, a, rq, <<r>>, Error("delete", r.status, TRUE))
    ELSE Outcome(<<>>, a, rq, <<r>>, NoErr)

(***************************************************************************)
(* Create                                                                  *)
(***************************************************************************)
\* `json:"...,omitempty"`: the key is left out when the value is the zero
\* value of its type.
PutOmitEmpty(m, k, v, zero) == IF v.v = zero THEN m ELSE Put(m, k, v)

NodesPath(a) == Path(a.project_id, "nodes", <<>>, "")
StartPath(a, nodeID) == Path(a.project_id, "nodes", nodeID, "start")

\* json.Marshal(Cloud{...}); NodeID is never set on the way out.
CloudPayload(a) ==
    LET m1 == Put(Put(EmptyObj, "name", JStr(a.name)), "node_type", JStr("cloud"))
        m2 == PutOmitEmpty(m1, "compute_id", JStr(a.compute_id), "")
        m3 == PutOmitEmpty(m2, "x", JNum(a.x), 0)
        m4 == PutOmitEmpty(m3, "y", JNum(a.y), 0)
    IN  PutOmitEmpty(m4, "symbol", JStr(a.symbol), "")

\* json.Marshal(Switch{...})
SwitchPayload(a) ==
    LET m1 == Put(Put(EmptyObj, "name", JStr(a.name)), "node_type", JStr("ethernet_switch"))
        m2 == PutOmitEmpty(m1, "compute_id", JStr(a.compute_id), "")
        m3 == PutOmitEmpty(m2, "x", JNum(a.x), 0)
        m4 == PutOmitEmpty(m3, "y", JNum(a.y), 0)
    IN  PutOmitEmpty(m4, "symbol", JStr(a.symbol), "")

\* Decoding a creation answer into a struct with NodeID string: fails on
\* bytes that are no JSON object and on a node_id that is no string.
StructDecodes(b) ==
    b.decodable /\ ("node_id" \in DOMAIN b.obj => b.obj.node_id.t = "str")

\* createdCloud.NodeID after the decode: the empty string when absent.
StructNodeID(b) == IF "node_id" \in DOMAIN b.obj THEN b.obj.node_id.v ELSE <<>>

resourceGns3CloudCreate(i, a, rc) ==
    LET rq == <<Req("POST", NodesPath(a), CloudPayload(a))>>
        nodeID == StructNodeID(rc.body)
    IN  IF ~rc.ok THEN Outcome(i, a, rq, <<rc>>, Error("create", 0, FALSE))
        ELSE IF rc.status # StatusCreated
             THEN Outcome(i, a, rq, <<rc>>, Error("create", rc.status, TRUE))
        ELSE IF ~StructDecodes(rc.body)
             THEN Outcome(i, a, rq, <<rc>>, Error("create-decode", 0, FALSE))
        ELSE IF nodeID = <<>>
             THEN Outcome(i, a, rq, <<rc>>, Error("create-node-id", 0, FALSE))
        ELSE Outcome(nodeID, [a EXCEPT !.cloud_id = nodeID], rq, <<rc>>, NoErr)

resourceGns3SwitchCreate(i, a, rc) ==
    LET rq == <<Req("POST", NodesPath(a), SwitchPayload(a))>>
        nodeID == StructNodeID(rc.body)
    IN  IF ~rc.ok THEN Outcome(i, a, rq, <<rc>>, Error("create", 0, FALSE))
        ELSE IF rc.status # StatusCreated
             THEN Outcome(i, a, rq, <<rc>>, Error("create", rc.status, TRUE))
        ELSE IF ~StructDecodes(rc.body)
             THEN Outcome(i, a, rq, <<rc>>, Error("create-decode", 0, FALSE))
        ELSE IF nodeID = <<>>
             THEN Outcome(i, a, rq, <<rc>>, Error("create-node-id", 0, FALSE))
        ELSE Outcome(nodeID, [a EXCEPT !.switch_id = nodeID], rq, <<rc>>, NoErr)

\* Variant: the node is created under the name of its compute.
TemplatePayload_NamedAfterCompute(a) ==
    Put(Put(Put(Put(EmptyObj, "name", JStr(a.compute_id)), "compute_id", JStr(a.compute_id)),
            "x", JNum(a.x)), "y", JNum(a.y))

\* templateData: a map, so every key is always present.
TemplatePayload(a) ==
    Put(Put(Put(Put(EmptyObj, "name", JStr(a.name)), "compute_id", JStr(a.compute_id)),
            "x", JNum(a.x)), "y", JNum(a.y))

\* Variant: only the type assertion is checked, not the emptiness.
MapNodeIDMissing_OnlyAbsent(b) == ~IsStr(b.obj, "node_id")

\* nodeID, ok := result["node_id"].(string); !ok || nodeID == ""
MapNodeIDMissing(b) == ~IsStr(b.obj, "node_id") \/ b.obj.node_id.v = <<>>

\* Variant: the ID is set only once the start step has succeeded.
resourceGns3TemplateCreate_IdAfterStart(i, a, rc, rs) ==
    LET post == Req("POST", Path(a.project_id, "templates", a.template_id, ""),
                    TemplatePayload(a))
        nodeID == rc.body.obj.node_id.v
        start == ReqNoBody("POST", StartPath(a, nodeID))
    IN  IF ~rc.ok THEN Outcome(i, a, <<post>>, <<rc>>, Error("create", 0, FALSE))
        ELSE IF rc.status # StatusCreated
             THEN Outcome(i, a, <<post>>, <<rc>>, Error("create", rc.status, FALSE))
        ELSE IF ~rc.body.decodable
             THEN Outcome(i, a, <<post>>, <<rc>>, Error("create-decode", 0, FALSE))
        ELSE IF ~IsStr(rc.body.obj, "node_id") \/ rc.body.obj.node_id.v = <<>>
             THEN Outcome(i, a, <<post>>, <<rc>>, Error("create-node-id", 0, FALSE))
        ELSE IF ~a.start THEN Outcome(nodeID, a, <<post>>, <<rc>>, NoErr)
        ELSE IF ~rs.ok
             THEN Outcome(i, a, <<post, start>>, <<rc, rs>>, Error("start", 0, FALSE))
        ELSE IF rs.status # StatusOK
             THEN Outcome(i, a, <<post, start>>, <<rc, rs>>,
                          Error("start", rs.status, FALSE))
        ELSE Outcome(nodeID, a, <<post, start>>, <<rc, rs>>, NoErr)

resourceGns3TemplateCreate(i, a, rc, rs) ==
    LET post == Req("POST", Path(a.project_id, "templates", a.template_id, ""),
                    TemplatePayload(a))
        nodeID == rc.body.obj.node_id.v
        start == ReqNoBody("POST", StartPath(a, nodeID))
    IN  IF ~rc.ok THEN Outcome(i, a, <<post>>, <<rc>>, Error("create", 0, FALSE))
        ELSE IF rc.status # StatusCreated
             THEN Outcome(i, a, <<post>>, <<rc>>, Error("create", rc.status, FALSE))
        ELSE IF ~rc.body.decodable
             THEN Outcome(i, a, <<post>>, <<rc>>, Error("create-decode", 0, FALSE))
        ELSE IF MapNodeIDMissing(rc.body)
             THEN Outcome(i, a, <<post>>, <<rc>>, Error("create-node-id", 0, FALSE))
        ELSE IF ~a.start THEN Outcome(nodeID, a, <<post>>, <<rc>>, NoErr)
        ELSE IF ~rs.ok
             THEN Outcome(nodeID, a, <<post, start>>, <<rc, rs>>, Error("start", 0, FALSE))
        ELSE IF rs.status # StatusOK
             THEN Outcome(nodeID, a, <<post, start>>, <<rc, rs>>,
                          Error("start", rs.status, FALSE))
        ELSE Outcome(nodeID, a, <<post, start>>, <<rc, rs>>, NoErr)

RECURSIVE Join(_, _)
\* strings.Join(list, sep)
Join(list, sep) ==
    IF list = <<>> THEN <<>>
    ELSE IF Len(list) = 1 THEN list[1]
    ELSE list[1] \o sep \o Join(Tail(list), sep)

\* The orders in which `for key, value := range envVars` may visit the map.
RangeOrders(env) ==
    {o \in [1..Cardinality(env) -> env] : \A p, q \in DOMAIN o : p # q => o[p] # o[q]}

\* envList of fmt.Sprintf("%s=%s", key, value) joined with ",".
EnvFormatted(order) ==
    Join([j \in DOMAIN order |-> order[j][1] \o <<"=">> \o order[j][2]], <<",">>)

\* json.Marshal(DockerNode{...})
DockerPayload(a, order) ==
    LET p1 == Put(EmptyObj, "image", JStr(a.image))
        p2 == IF GetOk(a, "environment")
              THEN Put(p1, "environment", JStr(EnvFormatted(order))) ELSE p1
        p3 == Put(p2, "console_type", JStr("none"))
        p4 == IF GetOk(a, "extra_volumes")
              THEN Put(p3, "extra_volumes", JList(a.extra_volumes)) ELSE p3
        p5 == IF GetOk(a, "start_command")
              THEN Put(p4, "start_command", JStr(a.start_command)) ELSE p4
        m1 == Put(Put(EmptyObj, "name", JStr(a.name)), "node_type", JStr("docker"))
        m2 == PutOmitEmpty(m1, "compute_id", JStr(a.compute_id), "")
        m3 == Put(m2, "properties", JObj(p5))
        m4 == PutOmitEmpty(m3, "x", JNum(a.x), 0)
    IN  PutOmitEmpty(m4, "y", JNum(a.y), 0)

\* Variant: a rejected start is compensated by removing the node again.
resourceGns3DockerCreate_RollsBack(i, a, order, rc, rs) ==
    LET post == Req("POST", NodesPath(a), DockerPayload(a, order))
        nodeID == StructNodeID(rc.body)
        a1 == [a EXCEPT !.docker_id = nodeID]
        start == ReqNoBody("POST", StartPath(a, nodeID))
        undo == ReqNoBody("DELETE", NodePath(a, nodeID))
    IN  IF ~rc.ok THEN Outcome(i, a, <<post>>, <<rc>>, Error("create", 0, FALSE))
        ELSE IF rc.status # StatusCreated
             THEN Outcome(i, a, <<post>>, <<rc>>, Error("create", rc.status, TRUE))
        ELSE IF ~StructDecodes(rc.body)
             THEN Outcome(i, a, <<post>>, <<rc>>, Error("create-decode", 0, FALSE))
        ELSE IF nodeID = <<>>
             THEN Outcome(i, a, <<post>>, <<rc>>, Error("create-node-id", 0, FALSE))
        ELSE IF ~a.start THEN Outcome(nodeID, a1, <<post>>, <<rc>>, NoErr)
        ELSE IF ~rs.ok
             THEN Outcome(nodeID, a1, <<post, start>>, <<rc, rs>>, Error("start", 0, FALSE))
        ELSE IF rs.status # StatusOK
             THEN Outcome(nodeID, a1, <<post, start, undo>>, <<rc, rs, rs>>,
                          Error("start", rs.status, TRUE))
        ELSE Outcome(nodeID, a1, <<post, start>>, <<rc, rs>>, NoErr)

resourceGns3DockerCreate(i, a, order, rc, rs) ==
    LET post == Req("POST", NodesPath(a), DockerPayload(a, order))
        nodeID == StructNodeID(rc.body)
        a1 == [a EXCEPT !.docker_id = nodeID]
        start == ReqNoBody("POST", StartPath(a, nodeID))
    IN  IF ~rc.ok THEN Outcome(i, a, <<post>>, <<rc>>, Error("create", 0, FALSE))
        ELSE IF rc.status # StatusCreated
             THEN Outcome(i, a, <<post>>, <<rc>>, Error("create", rc.status, TRUE))
        ELSE IF ~StructDecodes(rc.body)
             THEN Outcome(i, a, <<post>>, <<rc>>, Error("create-decode", 0, FALSE))
        ELSE IF nodeID = <<>>
             THEN Outcome(i, a, <<post>>, <<rc>>, Error("create-node-id", 0, FALSE))
        ELSE IF ~a.start THEN Outcome(nodeID, a1, <<post>>, <<rc>>, NoErr)
        ELSE IF ~rs.ok
             THEN Outcome(nodeID, a1, <<post, start>>, <<rc, rs>>, Error("start", 0, FALSE))
        ELSE IF rs.status # StatusOK
             THEN Outcome(nodeID, a1, <<post, start>>, <<rc, rs>>,
                          Error("start", rs.status, TRUE))
        ELSE Outcome(nodeID, a1, <<post, start>>, <<rc, rs>>, NoErr)

\* properties and payload of the qemu Create: maps, so bios_image,
\* cdrom_image and platform are sent even when empty.
QemuPayload(a) ==
    LET p1 == Put(Put(Put(Put(EmptyObj, "adapter_type", JStr(a.adapter_type)),
                          "adapters", JNum(a.adapters)),
                      "bios_image", JStr(a.bios_image)),
                  "cdrom_image", JStr(a.cdrom_image))
        p2 == Put(Put(Put(Put(p1, "console_type", JStr(a.console_type)),
                          "ram", JNum(a.ram)),
                      "cpus", JNum(a.cpus)),
                  "platform", JStr(a.platform))
        p3 == IF GetOk(a, "console") THEN Put(p2, "console", JNum(a.console)) ELSE p2
        p4 == IF GetOk(a, "mac_address")
              THEN Put(p3, "mac_address", JStr(a.mac_address)) ELSE p3
        p5 == IF GetOk(a, "options") THEN Put(p4, "options", JStr(a.options)) ELSE p4
        p6 == IF GetOk(a, "hda_disk_image")
              THEN Put(Put(p5, "hda_disk_image", JStr(a.hda_disk_image)),
                       "hda_disk_interface", JStr("virtio"))
              ELSE p5
        m1 == Put(Put(Put(EmptyObj, "name", JStr(a.name)), "node_type", JStr("qemu")),
                  "compute_id", JStr("local"))
    IN  Put(Put(Put(Put(m1, "x", JNum(a.x)), "y", JNum(a.y)), "symbol", JStr(a.symbol)),
            "properties", JObj(p6))

\* The outcome of a handler that ends with `return f(d, meta)`: the requests
\* sent so far followed by those of f.
Then(rq, rs, out) == [out EXCEPT !.reqs = rq \o out.reqs, !.resps = rs \o out.resps]

resourceGns3QemuCreate(i, a, rc, rs, rr) ==
    LET post == Req("POST", NodesPath(a), QemuPayload(a))
        nodeID == rc.body.obj.node_id.v
        start == ReqNoBody("POST", StartPath(a, nodeID))
    IN  IF ~rc.ok THEN Outcome(i, a, <<post>>, <<rc>>, Error("create", 0, FALSE))
        ELSE IF rc.status # StatusCreated /\ rc.status # StatusOK
             THEN Outcome(i, a, <<post>>, <<rc>>, Error("create", rc.status, TRUE))
        ELSE IF ~rc.body.decodable
             THEN Outcome(i, a, <<post>>, <<rc>>, Error("create-decode", 0, FALSE))
        ELSE IF MapNodeIDMissing(rc.body)
             THEN Outcome(i, a, <<post>>, <<rc>>, Error("create-node-id", 0, FALSE))
        ELSE IF ~a.start_vm
             THEN Then(<<post>>, <<rc>>, resourceGns3QemuRead(nodeID, a, rr))
        ELSE IF ~rs.ok
             THEN Outcome(nodeID, a, <<post, start>>, <<rc, rs>>, Error("start", 0, FALSE))
        ELSE IF rs.status # StatusOK
             THEN Outcome(nodeID, a, <<post, start>>, <<rc, rs>>,
                          Error("start", rs.status, TRUE))
        ELSE Then(<<post, start>>, <<rc, rs>>, resourceGns3QemuRead(nodeID, a, rr))

(***************************************************************************)
(* Update.  `a` is d as the handler receives it (d.Get gives the planned   *)
(* value) and `changed` the set of keys for which d.HasChange is true.     *)
(***************************************************************************)
PutIfChanged(m, changed, key, v) == IF key \in changed THEN Put(m, key, v) ELSE m

\* Variant: the Read follows the PUT whatever its answer was.
SendUpdate_ReadsAfterRejection(i, a, body, rp, withBody, read) ==
    LET put == Req("PUT", NodePath(a, i), body) IN
    IF ~rp.ok THEN Outcome(i, a, <<put>>, <<rp>>, Error("update", 0, FALSE))
    ELSE IF rp.status # StatusOK
         THEN [Then(<<put>>, <<rp>>, read)
                 EXCEPT !.err = Error("update", rp.status, withBody)]
    ELSE Then(<<put>>, <<rp>>, read)

\* Variant: the ID of d is restored after the Read that ends the update.
SendUpdate_KeepsIdentity(i, a, body, rp, withBody, read) ==
    LET put == Req("PUT", NodePath(a, i), body) IN
    IF ~rp.ok THEN Outcome(i, a, <<put>>, <<rp>>, Error("update", 0, FALSE))
    ELSE IF rp.status # StatusOK
         THEN Outcome(i, a, <<put>>, <<rp>>, Error("update", rp.status, withBody))
    ELSE [Then(<<put>>, <<rp>>, read) EXCEPT !.id = i]

\* The PUT of an update and what follows it; `read` is the outcome of the
\* kind's Read on the same d.
SendUpdate(i, a, body, rp, withBody, read) ==
    LET put == Req("PUT", NodePath(a, i), body) IN
    IF ~rp.ok THEN Outcome(i, a, <<put>>, <<rp>>, Error("update", 0, FALSE))
    ELSE IF rp.status # StatusOK
         THEN Outcome(i, a, <<put>>, <<rp>>, Error("update", rp.status, withBody))
    ELSE Then(<<put>>, <<rp>>, read)

CloudUpdateData(a, changed) ==
    LET m1 == PutIfChanged(EmptyObj, changed, "name", JStr(a.name))
        m2 == PutIfChanged(m1, changed, "compute_id", JStr(a.compute_id))
        m3 == PutIfChanged(m2, changed, "x", JNum(a.x))
        m4 == PutIfChanged(m3, changed, "y", JNum(a.y))
    IN  PutIfChanged(m4, changed, "symbol", JStr(a.symbol))

resourceGns3CloudUpdate(i, a, changed, rp, rr) ==
    LET updateData == CloudUpdateData(a, changed) IN
    IF DOMAIN updateData = {} THEN Outcome(i, a, <<>>, <<>>, NoErr)
    ELSE SendUpdate(i, a, updateData, rp, TRUE, resourceGns3CloudRead(i, a, rr))

SwitchUpdateData(a, changed) ==
    LET m1 == PutIfChanged(EmptyObj, changed, "name", JStr(a.name))
        m2 == PutIfChanged(m1, changed, "compute_id", JStr(a.compute_id))
        m3 == PutIfChanged(m2, changed, "x", JNum(a.x))
    IN  PutIfChanged(m3, changed, "y", JNum(a.y))

resourceGns3SwitchUpdate(i, a, changed, rp, rr) ==
    LET updateData == SwitchUpdateData(a, changed) IN
    IF DOMAIN updateData = {} THEN Outcome(i, a, <<>>, <<>>, NoErr)
    ELSE SendUpdate(i, a, updateData, rp, TRUE, resourceGns3SwitchRead(i, a, rr))

\* HasChange is never asked: the four keys are always sent.
TemplateUpdateData(a, changed) ==
    Put(Put(Put(Put(EmptyObj, "name", JStr(a.name)), "compute_id", JStr(a.compute_id)),
            "x", JNum(a.x)), "y", JNum(a.y))

resourceGns3TemplateUpdate(i, a, changed, rp, rr) ==
    SendUpdate(i, a, TemplateUpdateData(a, changed), rp, FALSE,
               resourceGns3TemplateRead(i, a, rr))

\* updateData as it is when json.Marshal runs.  start_command is put into
\* the map only after the answer to the PUT was read, so it is in no request.
DockerUpdateData(a, changed, order) ==
    PutIfChanged(EmptyObj, changed, "environment", JStr(EnvFormatted(order)))

\* No len(updateData) == 0 return: the PUT is sent also with an empty map.
resourceGns3DockerUpdate(i, a, changed, order, rp, rr) ==
    SendUpdate(i, a, DockerUpdateData(a, changed, order), rp, TRUE,
               resourceGns3DockerRead(i, a, rr))

QemuUpdateData(a, changed) ==
    LET m1 == PutIfChanged(EmptyObj, changed, "name", JStr(a.name))
        m2 == PutIfChanged(m1, changed, "x", JNum(a.x))
        m3 == PutIfChanged(m2, changed, "y", JNum(a.y))
        m4 == PutIfChanged(m3, changed, "symbol", JStr(a.symbol))
        p1 == PutIfChanged(EmptyObj, changed, "adapter_type", JStr(a.adapter_type))
        p2 == PutIfChanged(p1, changed, "adapters", JNum(a.adapters))
        p3 == PutIfChanged(p2, changed, "bios_image", JStr(a.bios_image))
        p4 == PutIfChanged(p3, changed, "cdrom_image", JStr(a.cdrom_image))
        p5 == PutIfChanged(p4, changed, "cpus", JNum(a.cpus))
        p6 == PutIfChanged(p5, changed, "ram", JNum(a.ram))
        p7 == PutIfChanged(p6, changed, "console_type", JStr(a.console_type))
        p8 == PutIfChanged(p7, changed, "platform", JStr(a.platform))
        p9 == PutIfChanged(p8, changed, "hda_disk_image", JStr(a.hda_disk_image))
        p10 == PutIfChanged(p9, changed, "mac_address", JStr(a.mac_address))
        properties == PutIfChanged(p10, changed, "options", JStr(a.options))
    IN  IF DOMAIN properties # {} THEN Put(m4, "properties", JObj(properties)) ELSE m4

resourceGns3QemuUpdate(i, a, changed, rp, rr) ==
    LET updateData == QemuUpdateData(a, changed) IN
    IF DOMAIN updateData = {} THEN Outcome(i, a, <<>>, <<>>, NoErr)
    ELSE SendUpdate(i, a, updateData, rp, TRUE, resourceGns3QemuRead(i, a, rr))

(***************************************************************************)
(* Import.  The host builds d with d.Id() = the raw key and no attribute   *)
(* set, and calls the importer of the kind.  Keys, project IDs and node    *)
(* IDs are sequences of characters.                                        *)
(***************************************************************************)
\* strings.Contains(s, sep) for a separator of one character.
Contains(s, sep) == \E j \in 1..Len(s) : s[j] = sep

\* strings.Index(s, sep): the place of the first sep in s.
Index(s, sep) == CHOOSE j \in 1..Len(s) : s[j] = sep /\ \A h \in 1..(j - 1) : s[h] # sep

\* strings.SplitN(s, sep, n) for n > 0: at most n parts, the last one the
\* unsplit rest.
RECURSIVE SplitN(_, _, _)
SplitN(s, sep, n) ==
    IF n = 1 \/ ~Contains(s, sep) THEN <<s>>
    ELSE <<SubSeq(s, 1, Index(s, sep) - 1)>>
         \o SplitN(SubSeq(s, Index(s, sep) + 1, Len(s)), sep, n - 1)

\* d.Set("project_id", projectID); d.SetId(nodeID); return d
Imported(a, projectID, nodeID) ==
    Outcome(nodeID, [a EXCEPT !.project_id = projectID], <<>>, <<>>, NoErr)

\* return nil, fmt.Errorf("invalid import ID ..."): d is as it was.
ImportRejected(raw, a) == Outcome(raw, a, <<>>, <<>>, Error("import", 0, FALSE))

resourceGns3CloudImporter(raw, a) ==
    LET parts == SplitN(raw, "/", 2) IN
    IF Len(parts) = 2 THEN Imported(a, parts[1], parts[2])
    ELSE ImportRejected(raw, a)

resourceGns3SwitchImporter(raw, a) ==
    LET parts == SplitN(raw, "/", 2) IN
    IF Len(parts) = 2 THEN Imported(a, parts[1], parts[2])
    ELSE ImportRejected(raw, a)

\* Variant: the node ID is also stored in the computed docker_id.
resourceGns3DockerImporter_SetsDockerID(raw, a) ==
    LET parts == SplitN(raw, "/", 2) IN
    IF Len(parts) = 2
    THEN Imported([a EXCEPT !.docker_id = parts[2]], parts[1], parts[2])
    ELSE ImportRejected(raw, a)

resourceGns3DockerImporter(raw, a) ==
    LET parts == SplitN(raw, "/", 2) IN
    IF Len(parts) = 2 THEN Imported(a, parts[1], parts[2])
    ELSE ImportRejected(raw, a)

\* Variant: a key without "/" is rejected after project_id was set to it.
resourceGns3TemplateImporter_PartlyPopulates(raw, a) ==
    IF Contains(raw, "/")
    THEN LET parts == SplitN(raw, "/", 2) IN Imported(a, parts[1], parts[2])
    ELSE ImportRejected(raw, [a EXCEPT !.project_id = raw])

resourceGns3TemplateImporter(raw, a) ==
    IF Contains(raw, "/")
    THEN LET parts == SplitN(raw, "/", 2) IN Imported(a, parts[1], parts[2])
    ELSE ImportRejected(raw, a)

\* Variant: the comma form has its operands in the order of the slash form.
resourceQemuImporter_SameOrder(raw, a) ==
    IF Contains(raw, ",")
    THEN LET parts == SplitN(raw, ",", 2) IN Imported(a, parts[1], parts[2])
    ELSE IF Contains(raw, "/")
         THEN LET parts == SplitN(raw, "/", 2) IN Imported(a, parts[1], parts[2])
    ELSE ImportRejected(raw, a)

\* The comma is looked for first: nodeID, projectID = parts[0], parts[1].
resourceQemuImporter(raw, a) ==
    IF Contains(raw, ",")
    THEN LET parts == SplitN(raw, ",", 2) IN Imported(a, parts[2], parts[1])
    ELSE IF Contains(raw, "/")
         THEN LET parts == SplitN(raw, "/", 2) IN Imported(a, parts[1], parts[2])
    ELSE ImportRejected(raw, a)

(***************************************************************************)
(* The controller's answers                                                *)
(***************************************************************************)
\* The answers to a request whose body the handler does not decode
\* (PUT, DELETE, POST .../start).
PlainResponses == {TransportError} \cup {Resp(s, TextBody) : s \in Statuses}

\* The bodies of an answer to a creation POST: no JSON, an object without
\* node_id, with an empty one, with a node id, with a number in its place.
CreateBodies ==
    {TextBody, JsonBody(EmptyObj), JsonBody([node_id |-> JNum(7)])}
    \cup {JsonBody([node_id |-> JStr(n)]) : n \in {<<>>, <<"n">>, <<"m">>}}

\* An answer with a status that some kind takes for success carries any of
\* these bodies, a rejecting answer an error text.
CreateResponses ==
    {TransportError}
    \cup {Resp(s, b) : s \in {StatusOK, StatusCreated}, b \in CreateBodies}
    \cup {Resp(s, TextBody) : s \in Statuses \ {StatusOK, StatusCreated}}

\* The bodies the Create of kind k may send for d = a: one, or one for each
\* order in which the docker environment is visited.
CreatePayloads(k, a) ==
    CASE k = "cloud" -> {CloudPayload(a)}
      [] k = "switch" -> {SwitchPayload(a)}
      [] k = "template" -> {TemplatePayload(a)}
      [] k = "docker" -> {DockerPayload(a, o) : o \in RangeOrders(a.environment)}
      [] k = "qemu" -> {QemuPayload(a)}

\* The fields of a node that the kind's Read looks for in the answer.
ReadFields(k) ==
    CASE k = "template" -> {"name", "x", "y"}
      [] k = "qemu" -> {"name", "x", "y", "properties", "adapter_type", "adapters",
                        "bios_image", "cdrom_image", "cpus"}
      [] OTHER -> {}

\* The JSON the controller gives for a node whose attributes are c, with the
\* fields in h left out.
NodeJson(k, c, h) ==
    LET top == [f \in {"name", "x", "y"} \ h |->
                   IF f = "name" THEN JStr(c.name) ELSE JNum(c[f])]
        props == [f \in (ReadFields(k) \ {"name", "x", "y", "properties"}) \ h |->
                     IF f \in {"adapters", "cpus"} THEN JNum(c[f]) ELSE JStr(c[f])]
    IN  IF "properties" \in ReadFields(k) \ h THEN Put(top, "properties", JObj(props))
        ELSE top

\* The node the controller holds is the fully specified one, so that an
\* instance declared otherwise has drifted from it.
\* A GET answer gives the whole node, leaves out one of the fields the Read
\* looks for, or has none of them.
\* or is the creation payload of that node as the controller stored it.
ReadBodies(k) ==
    {TextBody}
    \cup {JsonBody(NodeJson(k, FullConfig(k), h)) :
            h \in {{}, ReadFields(k)} \cup {{f} : f \in ReadFields(k)}}
    \cup {JsonBody(m) : m \in CreatePayloads(k, FullConfig(k))}

ReadResponses(k) ==
    {TransportError}
    \cup {Resp(s, TextBody) : s \in Statuses \ {StatusOK}}
    \cup {Resp(StatusOK, b) : b \in ReadBodies(k)}

\* Stands for the answer to a request that is never sent.
Unused == TransportError

(***************************************************************************)
(* State: the instance d (its kind, ID and attributes) and the record of   *)
(* the last handler call.                                                  *)
(***************************************************************************)
VARIABLES
    kind,      \* the resource kind of the instance
    id,        \* d.Id()
    attrs,     \* the attributes of d
    op,        \* the handler that just returned ("Create", "Read", "Update",
               \* "Delete"), or "none" between calls
    pre,       \* ID and attributes of d when that handler was called
    changed,   \* the keys with d.HasChange true in that call
    reqs,      \* the requests that call sent, in order
    resps,     \* the answers it got, in order
    err        \* what it returned

vars == <<kind, id, attrs, op, pre, changed, reqs, resps, err>>

Init ==
    /\ kind \in Kinds
    /\ attrs \in Configs(kind)
    /\ id = <<>>
    /\ op = "none"
    /\ pre = [id |-> <<>>, attrs |-> attrs]
    /\ changed = {}
    /\ reqs = <<>>
    /\ resps = <<>>
    /\ err = NoErr

\* The handler named o was called on d = (i, a) with the change set c and
\* left out.
Return(o, i, a, c, out) ==
    /\ op' = o
    /\ pre' = [id |-> i, attrs |-> a]
    /\ changed' = c
    /\ id' = out.id
    /\ attrs' = out.attrs
    /\ reqs' = out.reqs
    /\ resps' = out.resps
    /\ err' = out.err
    /\ UNCHANGED kind

\* Create is called on an instance that has no ID yet.
Create ==
    /\ op = "none"
    /\ id = <<>>
    /\ \E rc \in CreateResponses :
        CASE kind = "cloud" ->
                Return("Create", id, attrs, {}, resourceGns3CloudCreate(id, attrs, rc))
          [] kind = "switch" ->
                Return("Create", id, attrs, {}, resourceGns3SwitchCreate(id, attrs, rc))
          [] kind = "template" ->
                \E rs \in (IF Len(resourceGns3TemplateCreate(id, attrs, rc, Unused).reqs) > 1
                           THEN PlainResponses ELSE {Unused}) :
                    Return("Create", id, attrs, {},
                           resourceGns3TemplateCreate(id, attrs, rc, rs))
          [] kind = "docker" ->
                \E order \in RangeOrders(attrs.environment) :
                \E rs \in (IF Len(resourceGns3DockerCreate(id, attrs, order, rc, Unused).reqs) > 1
                           THEN PlainResponses ELSE {Unused}) :
                    Return("Create", id, attrs, {},
                           resourceGns3DockerCreate(id, attrs, order, rc, rs))
          [] kind = "qemu" ->
                \E rs \in (IF Len(resourceGns3QemuCreate(id, attrs, rc, Unused, Unused).reqs) > 1
                              /\ attrs.start_vm
                           THEN PlainResponses ELSE {Unused}) :
                \E rr \in (IF Len(resourceGns3QemuCreate(id, attrs, rc, rs, Unused).reqs)
                                > (IF attrs.start_vm THEN 2 ELSE 1)
                           THEN ReadResponses(kind) ELSE {Unused}) :
                    Return("Create", id, attrs, {},
                           resourceGns3QemuCreate(id, attrs, rc, rs, rr))

Read ==
    /\ op = "none"
    /\ \E rr \in ReadResponses(kind) :
        Return("Read", id, attrs, {},
               CASE kind = "cloud" -> resourceGns3CloudRead(id, attrs, rr)
                 [] kind = "switch" -> resourceGns3SwitchRead(id, attrs, rr)
                 [] kind = "template" -> resourceGns3TemplateRead(id, attrs, rr)
                 [] kind = "docker" -> resourceGns3DockerRead(id, attrs, rr)
                 [] kind = "qemu" -> resourceGns3QemuRead(id, attrs, rr))

\* The plan gives every declared attribute the value of a configuration that
\* agrees with the state on the ForceNew attributes; HasChange is true for the
\* keys whose planned value differs from the state's.
Update ==
    /\ op = "none"
    /\ \E cfg \in Configs(kind) :
        /\ \A f \in ForceNew(kind) : cfg[f] = attrs[f]
        /\ LET d == [f \in DOMAIN attrs |-> IF f \in Declared(kind) THEN cfg[f] ELSE attrs[f]]
               c == {f \in Declared(kind) : cfg[f] # attrs[f]}
           IN  \E rp \in PlainResponses :
               \E rr \in (IF rp.ok /\ rp.status = StatusOK THEN ReadResponses(kind)
                          ELSE {Unused}) :
                   CASE kind = "cloud" ->
                          Return("Update", id, d, c, resourceGns3CloudUpdate(id, d, c, rp, rr))
                     [] kind = "switch" ->
                          Return("Update", id, d, c, resourceGns3SwitchUpdate(id, d, c, rp, rr))
                     [] kind = "template" ->
                          Return("Update", id, d, c, resourceGns3TemplateUpdate(id, d, c, rp, rr))
                     [] kind = "docker" ->
                          \E order \in RangeOrders(d.environment) :
                              Return("Update", id, d, c,
                                     resourceGns3DockerUpdate(id, d, c, order, rp, rr))
                     [] kind = "qemu" ->
                          Return("Update", id, d, c, resourceGns3QemuUpdate(id, d, c, rp, rr))

Delete ==
    /\ op = "none"
    /\ \E r \in PlainResponses :
        Return("Delete", id, attrs, {},
               CASE kind = "cloud" -> resourceGns3CloudDelete(id, attrs, r)
                 [] kind = "switch" -> resourceGns3SwitchDelete(id, attrs, r)
                 [] kind = "template" -> resourceGns3TemplateDelete(id, attrs, r)
                 [] kind = "docker" -> resourceGns3DockerDelete(id, attrs, r)
                 [] kind = "qemu" -> resourceGns3QemuDelete(id, attrs, r))

\* The host stores d as the new state of the resource and builds a fresh
\* ResourceData from it for the next call.
Persist ==
    /\ op # "none"
    /\ ~(op = "Import" /\ err.failed)
    /\ op' = "none"
    /\ pre' = [id |-> id, attrs |-> attrs]
    /\ changed' = {}
    /\ reqs' = <<>>
    /\ resps' = <<>>
    /\ err' = NoErr
    /\ UNCHANGED <<kind, id, attrs>>

Next == Create \/ Read \/ Update \/ Delete \/ Persist

Spec == Init /\ [][Next]_vars

(***************************************************************************)
(* Import and what the host does next: the importer, then the Read that    *)
(* refreshes the imported instance.                                        *)
(***************************************************************************)
\* The attributes of a ResourceData built from no state and no
\* configuration: d.Get gives the zero value of each type.
ZeroAttrs(k) ==
    [f \in DOMAIN Schema(k) |->
        CASE f \in {"project_id", "template_id", "cloud_id", "switch_id", "docker_id",
                    "extra_volumes"} -> <<>>
          [] f = "environment" -> {}
          [] f \in {"start", "start_vm"} -> FALSE
          [] f \in {"x", "y", "adapters", "console", "cpus", "ram"} -> 0
          [] OTHER -> ""]

\* The characters of a raw key: one that project IDs are made of, one that
\* node IDs are made of, and the two separators.
KeyChars == {"p", "n", "/", ","}

\* The keys a user may hand to `terraform import`.
RawKeys == UNION {[1..l -> KeyChars] : l \in 0..MaxKeyLen}

ImportInit ==
    /\ kind \in Kinds
    /\ attrs = ZeroAttrs(kind)
    /\ id = <<>>
    /\ op = "none"
    /\ pre = [id |-> <<>>, attrs |-> attrs]
    /\ changed = {}
    /\ reqs = <<>>
    /\ resps = <<>>
    /\ err = NoErr

\* Import is called for an address that has no instance: d is new, its ID
\* the raw key.
Import ==
    /\ op = "none"
    /\ id = <<>>
    /\ \E raw \in RawKeys :
        LET a == ZeroAttrs(kind) IN
        Return("Import", raw, a, {},
               CASE kind = "cloud" -> resourceGns3CloudImporter(raw, a)
                 [] kind = "switch" -> resourceGns3SwitchImporter(raw, a)
                 [] kind = "template" -> resourceGns3TemplateImporter(raw, a)
                 [] kind = "docker" -> resourceGns3DockerImporter(raw, a)
                 [] kind = "qemu" -> resourceQemuImporter(raw, a))

\* The importer returned nil and an error: the host stores nothing and d is
\* dropped.
Discard ==
    /\ op = "Import"
    /\ err.failed
    /\ op' = "none"
    /\ id' = <<>>
    /\ attrs' = ZeroAttrs(kind)
    /\ pre' = [id |-> <<>>, attrs |-> ZeroAttrs(kind)]
    /\ changed' = {}
    /\ reqs' = <<>>
    /\ resps' = <<>>
    /\ err' = NoErr
    /\ UNCHANGED kind

ImportNext == Import \/ Read \/ Persist \/ Discard

ImportSpec == ImportInit /\ [][ImportNext]_vars

(***************************************************************************)
(* Properties                                                              *)
(***************************************************************************)
\* The answer to the j-th request of the call that just returned had status s.
Answered(j, s) == Len(resps) >= j /\ resps[j].ok /\ resps[j].status = s

\* The j-th request of the call was sent and failed: no answer, or an answer
\* with a status other than s.
Failed(j, s) == Len(resps) >= j /\ (~resps[j].ok \/ resps[j].status # s)

\* The keys of a request body, those of its "properties" object included.
BodyKeys(body) ==
    ((DOMAIN body) \ {"properties"})
    \cup (IF "properties" \in DOMAIN body THEN DOMAIN body.properties.v ELSE {})

\* The creation answer is a JSON object without node_id or with an empty one.
NodeIDAbsentOrEmpty(r) ==
    /\ r.body.decodable
    /\ \/ "node_id" \notin DOMAIN r.body.obj
       \/ r.body.obj.node_id.t = "str" /\ r.body.obj.node_id.v = <<>>

\* C1: a Delete of an instance that has an ID, whose DELETE request is answered
\* with 404, returns success and leaves the instance with an empty ID and its
\* attributes as they were, as a Delete answered with 204 does.
C1_DeleteNotFoundSucceeds ==
    (op = "Delete" /\ pre.id # <<>> /\ Answered(1, StatusNotFound))
        => (~err.failed /\ id = <<>> /\ attrs = pre.attrs)

\* C2: a Delete of an instance that has an ID, whose DELETE request is answered
\* with a status other than 204 and 404, returns an error and leaves the ID as
\* it was: the ID is cleared only on 204 or 404.
C2_DeleteOtherStatusFails ==
    (op = "Delete" /\ pre.id # <<>> /\ Len(resps) = 1 /\ resps[1].ok
        /\ resps[1].status \notin {StatusNoContent, StatusNotFound})
        => (err.failed /\ id = pre.id)

\* C3: a Read whose GET request is answered with 404 returns no error and
\* leaves the instance with an empty ID and every attribute unchanged.
C3_ReadNotFoundClearsIdentity ==
    (op = "Read" /\ Answered(1, StatusNotFound))
        => (~err.failed /\ id = <<>> /\ attrs = pre.attrs)

\* C3 happens: an instance that had an ID was read, the controller said 404.
C3_Witness ==
    /\ op = "Read" /\ Answered(1, StatusNotFound)
    /\ pre.id # <<>> /\ id = <<>> /\ ~err.failed

\* C4: a Create whose creation POST is answered with a status other than 201
\* returns an error and assigns no ID.
C4_CreateOnlyOnCreated ==
    (op = "Create" /\ Len(resps) >= 1 /\ resps[1].ok /\ resps[1].status # StatusCreated)
        => (err.failed /\ id = <<>>)

\* C5: a Create whose creation POST is answered with 201 and a body without
\* node_id, or with an empty one, returns an error, leaves the ID empty and
\* sends no further request.
C5_CreateWithoutNodeIDFails ==
    (op = "Create" /\ Answered(1, StatusCreated) /\ NodeIDAbsentOrEmpty(resps[1]))
        => (err.failed /\ id = <<>> /\ Len(reqs) = 1)

\* C5 happens: a creation was answered with 201 and no usable node_id.
C5_Witness ==
    /\ op = "Create" /\ Answered(1, StatusCreated) /\ NodeIDAbsentOrEmpty(resps[1])
    /\ err.failed /\ id = <<>>

\* C6 as stated: whenever Create returns an error, the ID is empty.
C6_FailedCreateLeavesNoIdentity ==
    (op = "Create" /\ err.failed) => id = <<>>

\* C6 amended: when Create returns an error and the creation POST is the only
\* request it sent (transport failure, rejected creation, undecodable answer,
\* missing node_id), the ID is empty; when it returns an error after a later
\* request (failed start step, failed read after the creation), the ID is the
\* non-empty node_id of the creation answer.
C6_FailedCreateIdentity ==
    (op = "Create" /\ err.failed)
        => IF Len(reqs) = 1 THEN id = <<>>
           ELSE id # <<>> /\ id = resps[1].body.obj.node_id.v

\* C6 happens: a qemu Create whose creation succeeded returned the error of
\* the read that ends it, with the ID of the new node set.
C6_Witness ==
    /\ op = "Create" /\ kind = "qemu" /\ err.failed
    /\ Len(reqs) >= 2 /\ reqs[Len(reqs)].method = "GET"
    /\ id # <<>> /\ id = resps[1].body.obj.node_id.v

\* C7: in the kinds with a start step, when the creation succeeded and the
\* start request fails, Create returns an error, the ID assigned by the
\* controller stays set, and the start POST is the last request: no DELETE
\* and nothing else follows it.
C7_FailedStartKeepsIdentity ==
    (/\ op = "Create" /\ kind \in {"template", "docker", "qemu"}
     /\ Len(reqs) >= 2 /\ reqs[2].path.action = "start" /\ Failed(2, StatusOK))
        => /\ err.failed
           /\ id # <<>> /\ id = resps[1].body.obj.node_id.v
           /\ Len(reqs) = 2
           /\ \A j \in DOMAIN reqs : reqs[j].method # "DELETE"

\* C7 happens: the start POST of a Create was rejected by the controller.
C7_Witness ==
    /\ op = "Create" /\ Len(reqs) = 2 /\ reqs[2].path.action = "start"
    /\ resps[2].ok /\ resps[2].status = 500
    /\ err.failed /\ id # <<>>

\* C8: an Update of an instance that has an ID, with no attribute marked as
\* changed, sends no request and returns success.
C8_UpdateWithoutChangesIsNoOp ==
    (op = "Update" /\ pre.id # <<>> /\ changed = {}) => (Len(reqs) = 0 /\ ~err.failed)

\* C9: the body of the PUT request that an Update of an instance with an ID
\* sends has a key only for attributes marked as changed, and none for
\* project_id, image or template_id.
C9_UpdateBodyIsTheDelta ==
    (op = "Update" /\ pre.id # <<>> /\ Len(reqs) >= 1)
        => /\ reqs[1].method = "PUT"
           /\ BodyKeys(reqs[1].body) \subseteq changed
           /\ BodyKeys(reqs[1].body) \cap {"project_id", "image", "template_id"} = {}

\* C10: in the docker Update of an instance with an ID, when start_command is
\* marked as changed the body of the PUT request carries the new start_command.
C10_DockerUpdateSendsStartCommand ==
    (/\ kind = "docker" /\ op = "Update" /\ pre.id # <<>>
     /\ "start_command" \in changed /\ Len(reqs) >= 1)
        => LET body == reqs[1].body
               where == IF "properties" \in DOMAIN body THEN body.properties.v ELSE body
           IN  /\ "start_command" \in BodyKeys(body)
               /\ "start_command" \in DOMAIN where
               /\ where.start_command = JStr(pre.attrs.start_command)

\* The attributes of kind k that an Update may change in place: the declared
\* ones that neither force a new instance nor belong to the creation only.
Mutable(k) == Declared(k) \ (ForceNew(k) \cup {"project_id", "start", "start_vm"})

\* The JSON values that stand for the value v of attribute f in a request.
Wire(f, v) ==
    CASE f \in {"x", "y", "adapters", "console", "cpus", "ram"} -> {JNum(v)}
      [] f = "environment" -> {JStr(EnvFormatted(o)) : o \in RangeOrders(v)}
      [] f = "extra_volumes" -> {JList(v)}
      [] OTHER -> {JStr(v)}

\* The object of a request body that holds key f: the body itself, or its
\* "properties" object when f is there.
Holder(body, f) ==
    IF f \in DOMAIN body THEN body
    ELSE IF "properties" \in DOMAIN body /\ f \in DOMAIN body.properties.v
         THEN body.properties.v
    ELSE EmptyObj

\* C11: when an Update of an instance with an ID returns success, every
\* mutable attribute marked as changed is in the body of the PUT request it
\* sent, with its new value; no change is dropped.
C11_UpdateSendsEveryChange ==
    (op = "Update" /\ pre.id # <<>> /\ ~err.failed)
        => \A f \in changed \cap Mutable(kind) :
              /\ Len(reqs) >= 1
              /\ reqs[1].method = "PUT"
              /\ f \in DOMAIN Holder(reqs[1].body, f)
              /\ Holder(reqs[1].body, f)[f] \in Wire(f, pre.attrs[f])

\* The attributes that travel in the "properties" object of a docker or qemu
\* node.
NestedGroup(k) ==
    CASE k = "docker" -> {"environment", "start_command"}
      [] k = "qemu" -> {"adapter_type", "adapters", "bios_image", "cdrom_image", "cpus",
                        "ram", "console_type", "platform", "hda_disk_image",
                        "mac_address", "options"}
      [] OTHER -> {}

\* C12: in the body of the PUT request of a docker or qemu Update, a changed
\* field of the nested group is never a top-level key and is found only in
\* the "properties" object, and a changed flat field (name, x, y, symbol) is
\* never a key of the "properties" object.
C12_UpdateFieldsAtTheirWirePath ==
    (kind \in {"docker", "qemu"} /\ op = "Update" /\ pre.id # <<>> /\ Len(reqs) >= 1)
        => LET body == reqs[1].body
               properties == IF "properties" \in DOMAIN body /\ body.properties.t = "obj"
                             THEN body.properties.v ELSE EmptyObj
           IN  /\ \A f \in changed \cap NestedGroup(kind) : f \notin DOMAIN body
               /\ \A f \in changed \cap {"name", "x", "y", "symbol"} :
                     f \notin DOMAIN properties

\* The Read of kind k on d = (i, a), answered with r.
ReadOf(k, i, a, r) ==
    CASE k = "cloud" -> resourceGns3CloudRead(i, a, r)
      [] k = "switch" -> resourceGns3SwitchRead(i, a, r)
      [] k = "template" -> resourceGns3TemplateRead(i, a, r)
      [] k = "docker" -> resourceGns3DockerRead(i, a, r)
      [] k = "qemu" -> resourceGns3QemuRead(i, a, r)

\* C13: when the PUT of an Update is answered with a status other than 200,
\* Update returns an error and the PUT is its only request; when it is
\* answered with 200, exactly one request follows, the GET of the same
\* project and ID, and Update returns what the kind's Read returns on that
\* answer and leaves the instance as that Read leaves it.
C13_UpdateReadsAfterOkOnly ==
    (op = "Update" /\ Len(reqs) >= 1 /\ reqs[1].method = "PUT" /\ resps[1].ok)
        => IF resps[1].status # StatusOK
           THEN err.failed /\ Len(reqs) = 1
           ELSE /\ Len(reqs) = 2
                /\ reqs[2] = ReqNoBody("GET", reqs[1].path)
                /\ reqs[2].path.project = pre.attrs.project_id
                /\ reqs[2].path.item = pre.id
                /\ LET read == ReadOf(kind, pre.id, pre.attrs, resps[2])
                   IN  err = read.err /\ id = read.id /\ attrs = read.attrs

\* C13 happens: the PUT of an instance with an ID was answered with 200 and
\* the Read that followed failed, which is what Update returned.
C13_Witness ==
    /\ op = "Update" /\ pre.id # <<>> /\ Answered(1, StatusOK)
    /\ Len(reqs) = 2 /\ reqs[2].method = "GET" /\ Answered(2, 500)
    /\ err.failed /\ err.at = "read"

\* C14 as stated: after Update has returned, with success or with an error,
\* the ID is the one the instance had when Update was called.
C14_UpdateKeepsIdentity ==
    (op = "Update") => id = pre.id

\* C14 amended: after Update has returned, the ID is the one the instance had
\* when Update was called, except when the PUT was answered with 200 and the
\* GET of the Read that follows with 404: then Update returns success and the
\* ID is empty.
C14_UpdateIdentityUnlessGone ==
    (op = "Update")
        => IF Answered(1, StatusOK) /\ Answered(2, StatusNotFound)
           THEN id = <<>> /\ ~err.failed
           ELSE id = pre.id

\* C14 happens: an instance with an ID was updated, the controller accepted
\* the PUT and answered the GET with 404.
C14_Witness ==
    /\ op = "Update" /\ pre.id # <<>>
    /\ Answered(1, StatusOK) /\ Answered(2, StatusNotFound)
    /\ id = <<>> /\ ~err.failed

\* C15: whenever Update or Delete returns an error, the ID and every
\* attribute of the instance are as they were when the handler was called.
C15_FailedUpdateOrDeleteChangesNothing ==
    (op \in {"Update", "Delete"} /\ err.failed) => (id = pre.id /\ attrs = pre.attrs)

\* C15 happens: the DELETE of an instance with an ID was rejected by the
\* controller.
C15_Witness ==
    /\ op = "Delete" /\ pre.id # <<>> /\ Answered(1, 500)
    /\ err.failed /\ id = pre.id

\* C16: a Read whose GET request is answered with a status other than 200 and
\* 404 returns an error and leaves the ID and every attribute as they were.
C16_ReadOtherStatusFails ==
    (op = "Read" /\ Len(resps) = 1 /\ resps[1].ok
        /\ resps[1].status \notin {StatusOK, StatusNotFound})
        => (err.failed /\ id = pre.id /\ attrs = pre.attrs)

\* C16 happens: the GET of an instance with an ID was answered with 409.
C16_Witness ==
    /\ op = "Read" /\ pre.id # <<>> /\ Answered(1, 409)
    /\ err.failed /\ id = pre.id /\ attrs = pre.attrs

\* The key "proj/node" and the key "node,proj" of the same project and node.
SlashKey == <<"p", "/", "n">>
CommaKey == <<"n", ",", "p">>

\* C17: Import of the key "proj/node" sets project_id to "proj" and the ID
\* to "node" in every kind; Import of "node,proj" does the same in the qemu
\* kind and returns an error in each of the other four.
C17_ImportBothForms ==
    (op = "Import")
        => /\ pre.id = SlashKey
                => (~err.failed /\ attrs.project_id = <<"p">> /\ id = <<"n">>)
           /\ pre.id = CommaKey
                => IF kind = "qemu"
                   THEN ~err.failed /\ attrs.project_id = <<"p">> /\ id = <<"n">>
                   ELSE err.failed

\* C17 happens: the qemu importer was given the comma form.
C17_Witness ==
    /\ op = "Import" /\ kind = "qemu" /\ pre.id = CommaKey
    /\ ~err.failed /\ attrs.project_id = <<"p">> /\ id = <<"n">>

\* The separators the importer of kind k accepts.
Separators(k) == IF k = "qemu" THEN {"/", ","} ELSE {"/"}

\* C18: Import of a key with none of the separators its kind accepts returns
\* an error and leaves the instance as it was passed in: the ID is still the
\* raw key, project_id and every other attribute are unset.
C18_ImportWithoutSeparatorFails ==
    (op = "Import" /\ \A sep \in Separators(kind) : ~Contains(pre.id, sep))
        => (err.failed /\ id = pre.id /\ attrs = pre.attrs)

\* C18 happens: an importer that knows only the slash form was given the
\* comma form.
C18_Witness ==
    /\ op = "Import" /\ kind = "template" /\ pre.id = CommaKey
    /\ err.failed /\ id = pre.id /\ attrs = ZeroAttrs(kind)

\* C19: for every non-empty project ID without "/" and every non-empty node
\* ID, also one with a ",", Import of the key project ID + "/" + node ID sets
\* project_id to that project ID and the ID to that node ID: the key is cut
\* at its first "/".
C19_ImportCanonicalRoundTrip ==
    (op = "Import")
        => \A j \in 1..Len(pre.id) :
              LET project == SubSeq(pre.id, 1, j - 1)
                  node == SubSeq(pre.id, j + 1, Len(pre.id))
              IN  (/\ pre.id[j] = "/" /\ ~Contains(project, "/")
                   /\ project # <<>> /\ node # <<>>)
                     => (~err.failed /\ attrs.project_id = project /\ id = node)

\* C20: Import sends no request, and every attribute other than project_id
\* is after Import as it was before.
C20_ImportTouchesOnlyProjectAndID ==
    (op = "Import")
        => /\ Len(reqs) = 0
           /\ \A f \in (DOMAIN attrs) \ {"project_id"} : attrs[f] = pre.attrs[f]

\* C20 happens: a docker instance was imported; its project_id and ID are
\* set, its computed docker_id is not.
C20_Witness ==
    /\ op = "Import" /\ kind = "docker" /\ ~err.failed
    /\ id = <<"n">> /\ attrs.project_id = <<"p">>
    /\ attrs.docker_id = <<>> /\ Len(reqs) = 0

\* C21: Update is never called on an instance with an ID while project_id is
\* marked as changed: the host answers a changed project_id with Delete and
\* Create, so no PUT addresses the existing ID under the new project.
C21_ProjectChangeNeverUpdatesInPlace ==
    (op = "Update" /\ pre.id # <<>>) => "project_id" \notin changed

\* Optional: true without a Default: the attributes a user may leave unset.
OptionalWithoutDefault(k) ==
    CASE k \in {"cloud", "switch"} -> {"x", "y"}
      [] k = "docker" -> {"environment", "x", "y", "extra_volumes", "start_command"}
      [] k = "qemu" -> {"bios_image", "cdrom_image", "console", "mac_address", "options",
                        "platform", "hda_disk_image"}
      [] OTHER -> {}

\* C22: the body of the creation request has no key for a computed field
\* (node_id, cloud_id, switch_id, docker_id) and none for an optional
\* attribute without default that the user left unset.
C22_CreateBodyOmitsComputedAndUnset ==
    (op = "Create" /\ Len(reqs) >= 1)
        => /\ BodyKeys(reqs[1].body)
                \cap {"node_id", "cloud_id", "switch_id", "docker_id"} = {}
           /\ \A f \in OptionalWithoutDefault(kind) :
                 pre.attrs[f] = ZeroAttrs(kind)[f] => f \notin BodyKeys(reqs[1].body)

\* C23: after a Read of an instance with an ID that was answered with 200 and
\* a JSON object, every attribute whose field is neither a key of the object
\* nor of its "properties" has the value it had before the Read.
C23_ReadKeepsAbsentFields ==
    (op = "Read" /\ pre.id # <<>> /\ Answered(1, StatusOK) /\ resps[1].body.decodable)
        => \A f \in DOMAIN attrs :
              f \notin BodyKeys(resps[1].body.obj) => attrs[f] = pre.attrs[f]

\* C24: after a Read of an instance with an ID that was answered with 200 and
\* a JSON object carrying name, x and y, the name, x and y of the instance
\* are those of the answer.
C24_ReadProjectsNameAndPosition ==
    (/\ op = "Read" /\ pre.id # <<>> /\ Answered(1, StatusOK) /\ resps[1].body.decodable
     /\ IsStr(resps[1].body.obj, "name")
     /\ IsNum(resps[1].body.obj, "x") /\ IsNum(resps[1].body.obj, "y"))
        => LET node == resps[1].body.obj
           IN  attrs.name = node.name.v /\ attrs.x = node.x.v /\ attrs.y = node.y.v

\* Every declared attribute of a has the value of the fully specified
\* configuration.
FullySpecified(k, a) == \A f \in Declared(k) : a[f] = FullConfig(k)[f]

\* The answer r is 200 with the creation payload of d = a, as a controller
\* gives it that stores the payload and echoes it.
Echoes(k, a, r) ==
    /\ r.ok /\ r.status = StatusOK /\ r.body.decodable
    /\ r.body.obj \in CreatePayloads(k, a)

\* C25: when a fully specified instance that was created is read and the
\* controller answers with the creation payload of its attributes, the Read
\* succeeds, keeps the ID, and every mutable attribute has the declared value
\* afterwards; the same holds for the Read that ends the qemu Create.
C25_CreateReadRoundTrip ==
    /\ (op = "Read" /\ pre.id # <<>> /\ FullySpecified(kind, pre.attrs)
            /\ Echoes(kind, pre.attrs, resps[1]))
         => /\ ~err.failed /\ id = pre.id
            /\ \A f \in Mutable(kind) : attrs[f] = pre.attrs[f]
    /\ (op = "Create" /\ kind = "qemu" /\ FullySpecified(kind, pre.attrs)
            /\ Len(reqs) >= 2 /\ reqs[Len(reqs)].method = "GET"
            /\ Echoes(kind, pre.attrs, resps[Len(resps)]))
         => /\ ~err.failed /\ id = resps[1].body.obj.node_id.v
            /\ \A f \in Mutable(kind) : attrs[f] = pre.attrs[f]

\* C25 happens: a fully specified qemu instance was created and then read,
\* and the controller echoed what the creation sent.
C25_Witness ==
    /\ op = "Read" /\ kind = "qemu" /\ pre.id # <<>>
    /\ FullySpecified(kind, pre.attrs) /\ Echoes(kind, pre.attrs, resps[1])
    /\ "properties" \in DOMAIN resps[1].body.obj
    /\ attrs = pre.attrs /\ ~err.failed

\* The number of requests of the call that are m requests with (start = TRUE)
\* or without (start = FALSE) the trailing "start" of the path.
Sent(m, start) ==
    Cardinality({j \in DOMAIN reqs :
                    reqs[j].method = m /\ ((reqs[j].path.action = "start") <=> start)})

\* C26: in one call Create sends at most one creation POST and at most one
\* start POST, Read exactly one GET, Update at most one PUT and Delete at most
\* one DELETE; a request that got no answer is the last one of its call.
C26_NothingIsRetried ==
    /\ op = "Create" => (Sent("POST", FALSE) <= 1 /\ Sent("POST", TRUE) <= 1)
    /\ op = "Read" => (Len(reqs) = 1 /\ Sent("GET", FALSE) = 1)
    /\ op = "Update" => Sent("PUT", FALSE) <= 1
    /\ op = "Delete" => Sent("DELETE", FALSE) <= 1
    /\ \A j \in DOMAIN resps : ~resps[j].ok => j = Len(reqs)

\* C26 happens: the DELETE of an instance with an ID got no answer, and the
\* Delete returned the failure after that one request.
C26_Witness ==
    /\ op = "Delete" /\ pre.id # <<>> /\ Len(reqs) = 1 /\ ~resps[1].ok
    /\ Sent("DELETE", FALSE) = 1 /\ err.failed

\* C27: when a Create, or a handler called on an instance with an ID,
\* returns the error of a rejected status (creation, start step, GET, PUT or
\* DELETE answered with a status that is not the success status), the error
\* carries that status code and the response body.
C27_RejectionCarriesStatusAndBody ==
    (/\ op = "Create" \/ pre.id # <<>>
     /\ err.failed /\ err.at \in {"create", "start", "read", "update", "delete"}
     /\ Len(resps) >= 1 /\ resps[Len(resps)].ok)
        => (err.code = resps[Len(resps)].status /\ err.body)

\* C28: a Read, Update or Delete called on an instance whose ID is empty
\* sends no request or returns an error.
C28_EmptyIdentityNeverSucceedsRemotely ==
    (op \in {"Read", "Update", "Delete"} /\ pre.id = <<>>)
        => (Len(reqs) = 0 \/ err.failed)

\* C29: whenever Create returns success, the ID of the instance is not empty
\* and is the node_id of the answer to the creation POST.
C29_CreatedIdentityIsNodeID ==
    (op = "Create" /\ ~err.failed)
        => /\ Len(resps) >= 1 /\ resps[1].ok /\ resps[1].body.decodable
           /\ IsStr(resps[1].body.obj, "node_id")
           /\ id # <<>>
           /\ id = resps[1].body.obj.node_id.v

\* The start flag of kind k.
StartFlag(k) == IF k = "qemu" THEN "start_vm" ELSE "start"

\* C30: in a Create of the template, docker or qemu kind, a start POST is the
\* second request, follows a creation POST that was answered with 201 and a
\* non-empty node_id, is sent only when the start flag is true, and goes to
\* the start path of the instance's project and that node_id; when it is the
\* last request of the call, the instance has that node_id as its ID.
C30_StartOnlyAfterCreation ==
    (op = "Create" /\ kind \in {"template", "docker", "qemu"})
        => \A j \in DOMAIN reqs :
              reqs[j].path.action = "start"
                 => /\ j = 2 /\ reqs[j].method = "POST"
                    /\ pre.attrs[StartFlag(kind)]
                    /\ Answered(1, StatusCreated)
                    /\ resps[1].body.decodable /\ IsStr(resps[1].body.obj, "node_id")
                    /\ resps[1].body.obj.node_id.v # <<>>
                    /\ reqs[j].path = StartPath(pre.attrs, resps[1].body.obj.node_id.v)
                    /\ Len(reqs) = 2 => id = resps[1].body.obj.node_id.v

\* C31: whenever Import returns success, the project_id it stored and the ID
\* it set are both non-empty; a key with an empty operand is rejected.
C31_ImportOperandsNonEmpty ==
    (op = "Import" /\ ~err.failed) => (attrs.project_id # <<>> /\ id # <<>>)

\* The computed attribute of kind k that holds the assigned node ID.
ComputedID(k) ==
    CASE k = "cloud" -> "cloud_id" [] k = "switch" -> "switch_id" [] k = "docker" -> "docker_id"

\* A project ID or node ID as the controller issues them: not empty, and
\* without a separator of the import keys.
PlainOperand(s) == s # <<>> /\ \A j \in DOMAIN s : s[j] \notin {"/", ","}

\* C32: in the cloud, switch and docker kinds, after a successful Create,
\* Read or Update (after an Import too, once Read has refreshed the
\* instance) an instance with a proper project ID and node ID has that ID in
\* its computed id attribute.
C32_ComputedIDFollowsIdentity ==
    (/\ kind \in {"cloud", "switch", "docker"}
     /\ op \in {"Create", "Read", "Update"}
     /\ ~err.failed
     /\ PlainOperand(attrs.project_id) /\ PlainOperand(id))
        => attrs[ComputedID(kind)] = id

\* C33: the body a docker Create or Update sends is a function of the
\* instance's attributes (and, for Update, of the changed keys): whichever
\* way the environment map is iterated, the handler sends this same body.
C33_DockerPayloadDeterministic ==
    (/\ kind = "docker"
     /\ op = "Create" \/ (op = "Update" /\ pre.id # <<>>)
     /\ Len(reqs) >= 1)
        => \A order \in RangeOrders(pre.attrs.environment) :
              reqs[1].body = IF op = "Create"
                             THEN DockerPayload(pre.attrs, order)
                             ELSE DockerUpdateData(pre.attrs, changed, order)

====
